---- MODULE Spec2Model ----
(***************************************************************************)
(* Model of layers.py: the building blocks of a progressively grown GAN.   *)
(*                                                                         *)
(* Tensors are records [shape, data]: data is the contiguous row-major     *)
(* storage, shape the list of sizes, so that view/reshape keep data and    *)
(* change shape, as they do on a contiguous torch tensor.  Indices are     *)
(* 0-based as in the source; data is a TLA+ sequence, hence the "+ 1".     *)
(*                                                                         *)
(* Numbers: alpha is a multiple of 1/AlphaDen; the values of the minibatch *)
(* stddev layer are multiples of 1e-4 (so squares are multiples of 1e-8);  *)
(* the equalized layers and the upsampler work on integers.                *)
(***************************************************************************)
EXTENDS Integers, Sequences, FiniteSets, TLC

VARIABLES
    alpha,      \* Fadein.alpha, as a multiple of 1/AlphaDen
    table,      \* ConcatTable: its layer1 and layer2
    fadeCall,   \* the last call on the Fadein object and what it returned
    layer,      \* an equalized layer: kind, bias flag, weight, bias_param, scale
    layer0,     \* the same layer as its constructor left it
    optSteps,   \* number of external optimizer updates so far
    eqCall,     \* the last forward call on the equalized layer
    group_size, \* MinibatchStddev.group_size
    mbsX,       \* the batch the caller passes to MinibatchStddev.forward
    mbsCall,    \* the MinibatchStddev.forward call on it
    upX,        \* the tensor the caller passes to Upsample.forward
    upCall      \* the Upsample.forward call on it

vars ==
    <<alpha, table, fadeCall, layer, layer0, optSteps, eqCall, group_size, mbsX,
      mbsCall, upX, upCall>>

----------------------------------------------------------------------------
\* Bounds of the model.

\* alpha and delta are multiples of 1/AlphaDen: 1.0 is AlphaDen, 0.3 is 3.
AlphaDen == 10
\* update_alpha deltas range over -MaxDelta..MaxDelta (in 1/AlphaDen).
MaxDelta == 5
\* Constructor arguments range over -MaxOutside..AlphaDen+MaxOutside.
MaxOutside == 2
\* Length of the tensors given to ConcatTable.
MaxFadeLen == 2

----------------------------------------------------------------------------
\* Tensor helpers (the tensor runtime the layers execute against).

RECURSIVE Prod(_)
Prod(s) == IF s = <<>> THEN 1 ELSE Head(s) * Prod(Tail(s))

RECURSIVE SumSeq(_)
SumSeq(s) == IF s = <<>> THEN 0 ELSE Head(s) + SumSeq(Tail(s))

Numel(t) == Prod(t.shape)

\* (data \o <<>> is data, stored as an evaluated sequence.)
Tensor(shape, data) == [shape |-> shape, data |-> data \o <<>>]

\* All tensors of a given shape with entries in vals.
TensorsOf(shape, vals) == {Tensor(shape, d) : d \in [1..Prod(shape) -> vals]}

\* x[n][c][h][w] of a 4-d tensor.
At4(t, n, c, h, w) ==
    t.data[((n * t.shape[2] + c) * t.shape[3] + h) * t.shape[4] + w + 1]

\* x[a][b] of a 2-d tensor.
At2(t, a, b) == t.data[a * t.shape[2] + b + 1]

\* Tensor.mul(scalar): a new tensor, the operand is left alone.
MulScalar(t, k) == Tensor(t.shape, [i \in 1..Len(t.data) |-> t.data[i] * k])

\* Elementwise sum of two tensors of one shape.
AddT(a, b) == Tensor(a.shape, [i \in 1..Len(a.data) |-> a.data[i] + b.data[i]])

\* Python's built-in min and max on two numbers.
PyMin(a, b) == IF b < a THEN b ELSE a
PyMax(a, b) == IF b > a THEN b ELSE a

----------------------------------------------------------------------------
\* ConcatTable and Fadein.

\* The transforms handed to ConcatTable: pure modules, named.
Layers == {"identity", "negate", "double", "plus_one"}

\* layer(x): calling a transform on a tensor.
ApplyLayer(l, x) ==
    CASE l = "identity" -> x
      [] l = "negate"   -> MulScalar(x, -1)
      [] l = "double"   -> MulScalar(x, 2)
      [] l = "plus_one" -> Tensor(x.shape, [i \in 1..Len(x.data) |-> x.data[i] + 1])

\* ConcatTable(layer1, layer2).forward(x)
ConcatTable_forward(layer1, layer2, x) ==
    <<ApplyLayer(layer1, x), ApplyLayer(layer2, x)>>

\* A faulty variant: the upper clamp is missing.
ClampAlpha_noUpper(a) == PyMax(0, a)

\* max(0, min(self.alpha, 1.0))
ClampAlpha(a) == PyMax(0, PyMin(a, AlphaDen))

\* A faulty variant: the blend weights are swapped.
Fadein_blend_swapped(x, a) ==
    AddT(MulScalar(x[1], a), MulScalar(x[2], AlphaDen - a))

\* x[0].mul(1.0 - self.alpha) + x[1].mul(self.alpha); the result is in units
\* of 1/AlphaDen, since alpha is.  x is the pair, x[1] here is x[0] there.
Fadein_blend(x, a) ==
    AddT(MulScalar(x[1], AlphaDen - a), MulScalar(x[2], a))

NoTensor == Tensor(<<0>>, <<>>)

FadeIdle ==
    [op |-> "init", before |-> 0, delta |-> 0, x |-> NoTensor, out |-> NoTensor,
     ret |-> 0]

FadeInputs ==
    UNION {TensorsOf(<<n>>, {-1, 2}) : n \in 1..MaxFadeLen}

\* ConcatTable.__init__(layer1, layer2)
ConcatTable_init ==
    \E layer1 \in Layers, layer2 \in Layers :
        table = [layer1 |-> layer1, layer2 |-> layer2]

\* Fadein.__init__(alpha): stores the argument as given.
Fadein_init ==
    /\ alpha \in (0 - MaxOutside)..(AlphaDen + MaxOutside)
    /\ fadeCall = FadeIdle

\* Fadein.update_alpha(delta)
update_alpha ==
    \E delta \in (0 - MaxDelta)..MaxDelta :
        /\ alpha' = ClampAlpha(alpha + delta)
        /\ fadeCall' = [FadeIdle EXCEPT !.op = "update_alpha",
                                       !.before = alpha, !.delta = delta]
        /\ UNCHANGED table

\* Fadein.get_alpha()
get_alpha ==
    /\ fadeCall' = [FadeIdle EXCEPT !.op = "get_alpha", !.before = alpha,
                                   !.ret = alpha]
    /\ UNCHANGED <<alpha, table>>

\* Fadein.forward(ConcatTable(layer1, layer2).forward(x))
Fadein_forward ==
    \E x \in FadeInputs :
        /\ fadeCall' = [FadeIdle EXCEPT
                           !.op = "forward", !.before = alpha, !.x = x,
                           !.out = Fadein_blend(
                                      ConcatTable_forward(table.layer1, table.layer2, x),
                                      alpha)]
        /\ UNCHANGED <<alpha, table>>

----------------------------------------------------------------------------
\* Equalized learning rate layers.

\* Magnitudes of the kaiming_normal_ draw that the model enumerates.
InitMags == {1, 3}
\* The external optimizer makes at most MaxOptSteps updates.
MaxOptSteps == 1

\* Constructor arguments the model enumerates.
LinearArgs == {[in_features |-> 2, out_features |-> o] : o \in 1..2}
ConvArgs ==
    {[in_features |-> 1, out_features |-> a[1], kernel_size |-> a[2],
      stride |-> a[3], padding |-> a[4]] :
        a \in {<<1, 1, 1, 0>>, <<2, 1, 2, 0>>, <<1, 2, 1, 1>>, <<1, 2, 2, 0>>}}

\* Integer square root: the r >= 0 with r*r <= n < (r+1)*(r+1).
RECURSIVE SqrtFrom(_, _)
SqrtFrom(n, r) == IF (r + 1) * (r + 1) > n THEN r ELSE SqrtFrom(n, r + 1)
Sqrt(n) == SqrtFrom(n, 0)

\* tensor.pow(2.).mean()
MeanSquare(t) ==
    SumSeq([i \in 1..Len(t.data) |-> t.data[i] * t.data[i]]) \div Len(t.data)

\* tensor.div(scalar)
DivScalar(t, k) == Tensor(t.shape, [i \in 1..Len(t.data) |-> t.data[i] \div k])

\* nn.init.kaiming_normal_: a random draw; the model enumerates draws whose
\* entries all have one magnitude s (signs all equal, or alternating), on
\* which the square root of the mean square and the division by it are
\* exact in integers.
KaimingDraws(shape) ==
    {Tensor(shape, [i \in 1..Prod(shape) |-> IF i % 2 = 0 THEN sg[1] * s ELSE sg[2] * s]) :
        s \in InitMags, sg \in {-1, 1} \X {-1, 1}}

\* torch.FloatTensor(out_features).fill_(0)
Zeros(n) == [i \in 1..n |-> 0]

\* The tail of the three constructors: the bias parameter, scale from the
\* initial weight, and the weight divided by scale.
Equalize(kind, bias, w0, stride, padding, out_features) ==
    LET scale == Sqrt(MeanSquare(w0))
    IN  [kind |-> kind, bias |-> bias, weight |-> DivScalar(w0, scale),
         bias_param |-> IF bias THEN Zeros(out_features) ELSE <<>>,
         scale |-> scale, stride |-> stride, padding |-> padding]

\* EqualizedConv2d.__init__
EqualizedConv2d_init(l) ==
    \E a \in ConvArgs, bias \in BOOLEAN :
    \E w0 \in KaimingDraws(<<a.out_features, a.in_features, a.kernel_size, a.kernel_size>>) :
        l = Equalize("conv", bias, w0, a.stride, a.padding, a.out_features)

\* EqualizedDeconv2d.__init__ (ConvTranspose2d keeps its weight as in x out x k x k)
EqualizedDeconv2d_init(l) ==
    \E a \in ConvArgs, bias \in BOOLEAN :
    \E w0 \in KaimingDraws(<<a.in_features, a.out_features, a.kernel_size, a.kernel_size>>) :
        l = Equalize("deconv", bias, w0, a.stride, a.padding, a.out_features)

\* EqualizedLinear.__init__
EqualizedLinear_init(l) ==
    \E a \in LinearArgs, bias \in BOOLEAN :
    \E w0 \in KaimingDraws(<<a.out_features, a.in_features>>) :
        l = Equalize("linear", bias, w0, 1, 0, a.out_features)

\* nn.Conv2d(bias=False) applied to x: zero padding, cross-correlation.
Conv2d(x, w, stride, pad) ==
    LET N == x.shape[1]  Cin == x.shape[2]  H == x.shape[3]  W == x.shape[4]
        Cout == w.shape[1]  K == w.shape[3]
        Ho == (H + 2 * pad - K) \div stride + 1
        Wo == (W + 2 * pad - K) \div stride + 1
        XPad(n, c, i, j) ==
            IF 0 <= i /\ i < H /\ 0 <= j /\ j < W THEN At4(x, n, c, i, j) ELSE 0
        Term(n, o, i, j, t) ==
            LET kj == t % K  ki == (t \div K) % K  c == t \div (K * K)
            IN  XPad(n, c, i * stride + ki - pad, j * stride + kj - pad)
                    * At4(w, o, c, ki, kj)
        Elem(e) ==
            LET j == e % Wo  i == (e \div Wo) % Ho
                o == (e \div (Wo * Ho)) % Cout  n == e \div (Wo * Ho * Cout)
            IN  SumSeq([t \in 1..(Cin * K * K) |-> Term(n, o, i, j, t - 1)])
    IN  Tensor(<<N, Cout, Ho, Wo>>, [e \in 1..(N * Cout * Ho * Wo) |-> Elem(e - 1)])

\* nn.ConvTranspose2d(bias=False) applied to x.
ConvTranspose2d(x, w, stride, pad) ==
    LET N == x.shape[1]  Cin == x.shape[2]  H == x.shape[3]  W == x.shape[4]
        Cout == w.shape[2]  K == w.shape[3]
        Ho == (H - 1) * stride - 2 * pad + K
        Wo == (W - 1) * stride - 2 * pad + K
        Src(n, c, a, b) ==
            IF /\ a >= 0 /\ b >= 0 /\ a % stride = 0 /\ b % stride = 0
               /\ a \div stride < H /\ b \div stride < W
            THEN At4(x, n, c, a \div stride, b \div stride) ELSE 0
        Term(n, o, i, j, t) ==
            LET kj == t % K  ki == (t \div K) % K  c == t \div (K * K)
            IN  Src(n, c, i + pad - ki, j + pad - kj) * At4(w, c, o, ki, kj)
        Elem(e) ==
            LET j == e % Wo  i == (e \div Wo) % Ho
                o == (e \div (Wo * Ho)) % Cout  n == e \div (Wo * Ho * Cout)
            IN  SumSeq([t \in 1..(Cin * K * K) |-> Term(n, o, i, j, t - 1)])
    IN  Tensor(<<N, Cout, Ho, Wo>>, [e \in 1..(N * Cout * Ho * Wo) |-> Elem(e - 1)])

\* nn.Linear(bias=False) applied to a 2-d x: x @ W^T.
Linear(x, w) ==
    LET N == x.shape[1]  In == x.shape[2]  Out == w.shape[1]
        Elem(e) ==
            LET o == e % Out  n == e \div Out
            IN  SumSeq([i \in 1..In |-> At2(x, n, i - 1) * At2(w, o, i - 1)])
    IN  Tensor(<<N, Out>>, [e \in 1..(N * Out) |-> Elem(e - 1)])

\* x.view(x.size(0), -1)
Flatten(x) == Tensor(<<x.shape[1], Numel(x) \div x.shape[1]>>, x.data)

\* x + bias_param.view(1, -1, 1, 1).expand_as(x)
AddBias4(x, bias_param) ==
    LET C == x.shape[2]  HW == x.shape[3] * x.shape[4]
    IN  Tensor(x.shape, [e \in 1..Len(x.data) |->
                            x.data[e] + bias_param[(((e - 1) \div HW) % C) + 1]])

\* x + bias_param.view(1, -1).expand_as(x)
AddBias2(x, bias_param) ==
    LET C == x.shape[2]
    IN  Tensor(x.shape, [e \in 1..Len(x.data) |->
                            x.data[e] + bias_param[((e - 1) % C) + 1]])

\* The value returned by EqualizedConv2d.forward(x)
Conv2d_output(l, x) ==
    LET y == Conv2d(MulScalar(x, l.scale), l.weight, l.stride, l.padding)
    IN  IF l.bias THEN AddBias4(y, l.bias_param) ELSE y

\* The value returned by EqualizedDeconv2d.forward(x)
Deconv2d_output(l, x) ==
    LET y == ConvTranspose2d(MulScalar(x, l.scale), l.weight, l.stride, l.padding)
    IN  IF l.bias THEN AddBias4(y, l.bias_param) ELSE y

\* A faulty variant: scale is applied after the bias is added, so the bias is scaled.
Linear_output_scaledBias(l, x) ==
    LET y == Linear(Flatten(x), l.weight)
    IN  IF l.bias THEN MulScalar(AddBias2(y, l.bias_param), l.scale)
                  ELSE MulScalar(y, l.scale)

\* The value returned by EqualizedLinear.forward(x)
Linear_output(l, x) ==
    LET y == Linear(Flatten(MulScalar(x, l.scale)), l.weight)
    IN  IF l.bias THEN AddBias2(y, l.bias_param) ELSE y

\* Inputs the tensor runtime accepts (anything else raises in the runtime
\* and the call returns nothing).
ConvAccepts(l, x) ==
    /\ x.shape[2] = l.weight.shape[2]
    /\ x.shape[3] + 2 * l.padding >= l.weight.shape[3]
    /\ x.shape[4] + 2 * l.padding >= l.weight.shape[4]
DeconvAccepts(l, x) ==
    /\ x.shape[2] = l.weight.shape[1]
    /\ (x.shape[3] - 1) * l.stride - 2 * l.padding + l.weight.shape[3] >= 1
    /\ (x.shape[4] - 1) * l.stride - 2 * l.padding + l.weight.shape[4] >= 1
LinearAccepts(l, x) == Numel(x) = x.shape[1] * l.weight.shape[2]

ConvInputs ==
    {Tensor(<<1, 1, 2, 2>>, <<1, 0, 2, 1>>), Tensor(<<1, 1, 2, 2>>, <<0, 1, 1, 3>>),
     Tensor(<<2, 1, 1, 1>>, <<1, 2>>), Tensor(<<1, 1, 1, 2>>, <<2, 1>>)}
LinearInputs ==
    UNION {TensorsOf(<<1, s[1], s[2], s[3]>>, {0, 1}) :
              s \in {<<2, 1, 1>>, <<1, 2, 1>>, <<1, 1, 2>>}}
        \cup TensorsOf(<<2, 1, 2, 1>>, {1, 2})

EqIdleCall == [op |-> "init", x |-> NoTensor, out |-> NoTensor]

\* State right after one of the three constructors.
Equalized_init ==
    /\ \/ EqualizedConv2d_init(layer)
       \/ EqualizedDeconv2d_init(layer)
       \/ EqualizedLinear_init(layer)
    /\ layer0 = layer
    /\ optSteps = 0
    /\ eqCall = EqIdleCall

\* A faulty variant: forward recomputes scale from the current weight.
EqualizedConv2d_forward_rescaling ==
    /\ layer.kind = "conv"
    /\ \E x \in ConvInputs :
        /\ ConvAccepts(layer, x)
        /\ eqCall' = [op |-> "forward", x |-> x, out |-> Conv2d_output(layer, x)]
    /\ layer' = [layer EXCEPT !.scale = Sqrt(MeanSquare(layer.weight))]
    /\ UNCHANGED <<layer0, optSteps>>

\* EqualizedConv2d.forward(x)
EqualizedConv2d_forward ==
    /\ layer.kind = "conv"
    /\ \E x \in ConvInputs :
        /\ ConvAccepts(layer, x)
        /\ eqCall' = [op |-> "forward", x |-> x, out |-> Conv2d_output(layer, x)]
    /\ UNCHANGED <<layer, layer0, optSteps>>

\* EqualizedDeconv2d.forward(x)
EqualizedDeconv2d_forward ==
    /\ layer.kind = "deconv"
    /\ \E x \in ConvInputs :
        /\ DeconvAccepts(layer, x)
        /\ eqCall' = [op |-> "forward", x |-> x, out |-> Deconv2d_output(layer, x)]
    /\ UNCHANGED <<layer, layer0, optSteps>>

\* EqualizedLinear.forward(x)
EqualizedLinear_forward ==
    /\ layer.kind = "linear"
    /\ \E x \in LinearInputs :
        /\ LinearAccepts(layer, x)
        /\ eqCall' = [op |-> "forward", x |-> x, out |-> Linear_output(layer, x)]
    /\ UNCHANGED <<layer, layer0, optSteps>>

\* The external optimizer changes one weight entry between two forward calls.
OptimizerWeightStep ==
    /\ optSteps < MaxOptSteps
    /\ \E i \in 1..Len(layer.weight.data), d \in {-1, 1} :
        layer' = [layer EXCEPT !.weight.data[i] = @ + d]
    /\ optSteps' = optSteps + 1
    /\ eqCall' = [EqIdleCall EXCEPT !.op = "optimizer"]
    /\ UNCHANGED layer0

\* The external optimizer changes one bias entry (bias_param exists only
\* when the layer was built with bias=True).
OptimizerBiasStep ==
    /\ optSteps < MaxOptSteps
    /\ layer.bias
    /\ \E i \in 1..Len(layer.bias_param), d \in {-1, 1} :
        layer' = [layer EXCEPT !.bias_param[i] = @ + d]
    /\ optSteps' = optSteps + 1
    /\ eqCall' = [EqIdleCall EXCEPT !.op = "optimizer"]
    /\ UNCHANGED layer0

----------------------------------------------------------------------------
\* Minibatch standard deviation.  Values are multiples of 1e-4, squares
\* multiples of 1e-8; a mean and a square root round down to the unit.

\* The 1e-8 added before the square root, in units of 1e-8.
Epsilon == 1
\* group_size ranges over 1..MaxGroup.
MaxGroup == 4
\* Inputs have at most MaxMbsElems elements (so batch sizes 1..MaxMbsElems).
MaxMbsElems == 8
\* Feature values of the inputs, in units of 1e-4.
PixelValues == {0, 6}

Shapes4(maxElems) ==
    {s \in (1..maxElems) \X (1..maxElems) \X (1..maxElems) \X (1..maxElems) :
        s[1] * s[2] * s[3] * s[4] <= maxElems}

MbsInputs == UNION {TensorsOf(s, PixelValues) : s \in Shapes4(MaxMbsElems)}

\* A faulty variant: the fallback to the whole batch is missing.
GroupOf_noFallback(gs, N) == PyMin(gs, N)

\* G = min(group_size, N) if N % group_size == 0 else N
GroupOf(gs, N) == IF N % gs = 0 THEN PyMin(gs, N) ELSE N

\* M = int(N / G)
GroupCount(N, G) == N \div G

\* torch.mean(y, dim=0): the mean over the first axis, of shape Tail(y.shape).
MeanDim0(y) ==
    LET G == y.shape[1]  R == Len(y.data) \div G
    IN  Tensor(Tail(y.shape),
               [r \in 1..R |-> SumSeq([g \in 1..G |-> y.data[(g - 1) * R + r]]) \div G])

\* y - torch.mean(y, dim=0, keepdim=True): the mean broadcast over the first axis.
SubMean0(y) ==
    LET G == y.shape[1]  R == Len(y.data) \div G  mean == MeanDim0(y)
    IN  Tensor(y.shape, [e \in 1..Len(y.data) |-> y.data[e] - mean.data[((e - 1) % R) + 1]])

\* y.pow(2.)
Square(y) == Tensor(y.shape, [e \in 1..Len(y.data) |-> y.data[e] * y.data[e]])

\* A faulty variant: the 1e-8 is not added.
SqrtEps_noEpsilon(y) == Tensor(y.shape, [e \in 1..Len(y.data) |-> Sqrt(y.data[e])])

\* torch.sqrt(y + 1e-8)
SqrtEps(y) == Tensor(y.shape, [e \in 1..Len(y.data) |-> Sqrt(y.data[e] + Epsilon)])

\* torch.mean(y.view(M, -1), dim=1).view(M, 1, 1, 1)
MeanRows(y, M) ==
    LET R == Len(y.data) \div M
    IN  Tensor(<<M, 1, 1, 1>>,
               [m \in 1..M |-> SumSeq([q \in 1..R |-> y.data[(m - 1) * R + q]]) \div R])

\* A faulty variant: each entry is repeated G times in a row (repeat_interleave).
Repeat_interleaved(y, G, H, W) ==
    LET M == y.shape[1]
    IN  Tensor(<<M * G, 1, H, W>>,
               [e \in 1..(M * G * H * W) |-> y.data[(((e - 1) \div (H * W)) \div G) + 1]])

\* y.repeat(G, 1, H, W) of an M x 1 x 1 x 1 tensor: the tensor is tiled, so
\* entry n of the first axis is entry n mod M of y.
Repeat(y, G, H, W) ==
    LET M == y.shape[1]
    IN  Tensor(<<M * G, 1, H, W>>,
               [e \in 1..(M * G * H * W) |-> y.data[(((e - 1) \div (H * W)) % M) + 1]])

\* A faulty variant: the new feature map is put first.
Cat1_reversed(x, y) ==
    LET C == x.shape[2]  Cy == y.shape[2]  HW == x.shape[3] * x.shape[4]
        Elem(e) ==
            LET q == e % HW  c == (e \div HW) % (C + Cy)  n == e \div (HW * (C + Cy))
            IN  IF c < Cy THEN y.data[(n * Cy + c) * HW + q + 1]
                          ELSE x.data[(n * C + (c - Cy)) * HW + q + 1]
    IN  Tensor(<<x.shape[1], C + Cy, x.shape[3], x.shape[4]>>,
               [e \in 1..(Len(x.data) + Len(y.data)) |-> Elem(e - 1)])

\* torch.cat([x, y], 1)
Cat1(x, y) ==
    LET C == x.shape[2]  Cy == y.shape[2]  HW == x.shape[3] * x.shape[4]
        Elem(e) ==
            LET q == e % HW  c == (e \div HW) % (C + Cy)  n == e \div (HW * (C + Cy))
            IN  IF c < C THEN x.data[(n * C + c) * HW + q + 1]
                         ELSE y.data[(n * Cy + (c - C)) * HW + q + 1]
    IN  Tensor(<<x.shape[1], C + Cy, x.shape[3], x.shape[4]>>,
               [e \in 1..(Len(x.data) + Len(y.data)) |-> Elem(e - 1)])

\* torch.cat along axis 1 accepts tensors that agree on every other axis.
CatAccepts(x, y) ==
    /\ x.shape[1] = y.shape[1] /\ x.shape[3] = y.shape[3] /\ x.shape[4] = y.shape[4]

\* The result of MinibatchStddev.forward(x): the locals G and M, and either
\* the returned tensor or the runtime's shape error.
MinibatchStddev_result(gs, x) ==
    LET N == x.shape[1]  C == x.shape[2]  H == x.shape[3]  W == x.shape[4]
        G == GroupOf(gs, N)
        M == GroupCount(N, G)
        y1 == Tensor(<<G, M, C, H, W>>, x.data)
        y2 == SubMean0(y1)
        y3 == MeanDim0(Square(y2))
        y4 == SqrtEps(y3)
        y5 == MeanRows(y4, M)
        y6 == Repeat(y5, G, H, W)
    IN  IF G * M * C * H * W # Numel(x)
        THEN [op |-> "error", G |-> G, M |-> M, out |-> NoTensor]
        ELSE IF ~CatAccepts(x, y6)
        THEN [op |-> "error", G |-> G, M |-> M, out |-> NoTensor]
        ELSE [op |-> "forward", G |-> G, M |-> M, out |-> Cat1(x, y6)]

MbsIdleCall == [op |-> "init", G |-> 0, M |-> 0, out |-> NoTensor]

\* MinibatchStddev.__init__(group_size), and the batch the caller holds.
MinibatchStddev_init ==
    /\ group_size \in 1..MaxGroup
    /\ mbsX \in MbsInputs
    /\ mbsCall = MbsIdleCall

\* MinibatchStddev.forward(x)
MinibatchStddev_forward ==
    /\ mbsCall' = MinibatchStddev_result(group_size, mbsX)
    /\ UNCHANGED <<group_size, mbsX>>

----------------------------------------------------------------------------
\* Nearest-neighbor upsample.

\* Inputs have at most MaxUpElems elements.
MaxUpElems == 6

UpInputs == UNION {TensorsOf(s, {0, 1}) : s \in Shapes4(MaxUpElems)}

\* A faulty variant: the source index is rounded to the nearest instead of down.
NearestIndex_rounded(dst, scale_factor, in_size) ==
    PyMin((2 * dst + scale_factor) \div (2 * scale_factor), in_size - 1)

\* The source index of mode='nearest': floor(dst * (1 / scale_factor)),
\* kept inside the input.
NearestIndex(dst, scale_factor, in_size) ==
    PyMin(dst \div scale_factor, in_size - 1)

\* F.interpolate(x, scale_factor=sf, mode='nearest') on a 4-d tensor.
Interpolate(x, sf) ==
    LET N == x.shape[1]  C == x.shape[2]  H == x.shape[3]  W == x.shape[4]
        Ho == H * sf  Wo == W * sf
        Elem(e) ==
            LET j == e % Wo  i == (e \div Wo) % Ho
                c == (e \div (Wo * Ho)) % C  n == e \div (Wo * Ho * C)
            IN  At4(x, n, c, NearestIndex(i, sf, H), NearestIndex(j, sf, W))
    IN  Tensor(<<N, C, Ho, Wo>>, [e \in 1..(N * C * Ho * Wo) |-> Elem(e - 1)])

UpIdleCall == [op |-> "init", out |-> NoTensor]

\* Upsample.__init__(), and the tensor the caller holds.
Upsample_init ==
    /\ upX \in UpInputs
    /\ upCall = UpIdleCall

\* Upsample.forward(x)
Upsample_forward ==
    /\ upCall' = [op |-> "forward", out |-> Interpolate(upX, 2)]
    /\ UNCHANGED upX

----------------------------------------------------------------------------
\* Specifications: one object under test at a time; the other objects are
\* not constructed and stay as they are.

NoLayer ==
    [kind |-> "none", bias |-> FALSE, weight |-> NoTensor, bias_param |-> <<>>,
     scale |-> 0, stride |-> 0, padding |-> 0]

NoFadein ==
    alpha = 0 /\ table = [layer1 |-> "identity", layer2 |-> "identity"] /\ fadeCall = FadeIdle
NoEqualized ==
    layer = NoLayer /\ layer0 = NoLayer /\ optSteps = 0 /\ eqCall = EqIdleCall
NoMinibatchStddev == group_size = 0 /\ mbsX = NoTensor /\ mbsCall = MbsIdleCall
NoUpsample == upX = NoTensor /\ upCall = UpIdleCall

fadeVars == <<alpha, table, fadeCall>>
eqVars == <<layer, layer0, optSteps, eqCall>>
mbsVars == <<group_size, mbsX, mbsCall>>
upVars == <<upX, upCall>>

\* A Fadein object driven by a training loop.
FadeInit == Fadein_init /\ ConcatTable_init /\ NoEqualized /\ NoMinibatchStddev /\ NoUpsample
FadeNext ==
    \/ update_alpha /\ UNCHANGED <<eqVars, mbsVars, upVars>>
    \/ get_alpha /\ UNCHANGED <<eqVars, mbsVars, upVars>>
    \/ Fadein_forward /\ UNCHANGED <<eqVars, mbsVars, upVars>>
SpecFade == FadeInit /\ [][FadeNext]_vars

\* An equalized layer, its forward calls and the optimizer's updates.
EqInit == Equalized_init /\ NoFadein /\ NoMinibatchStddev /\ NoUpsample
EqNext ==
    \/ EqualizedConv2d_forward /\ UNCHANGED <<fadeVars, mbsVars, upVars>>
    \/ EqualizedDeconv2d_forward /\ UNCHANGED <<fadeVars, mbsVars, upVars>>
    \/ EqualizedLinear_forward /\ UNCHANGED <<fadeVars, mbsVars, upVars>>
    \/ OptimizerWeightStep /\ UNCHANGED <<fadeVars, mbsVars, upVars>>
    \/ OptimizerBiasStep /\ UNCHANGED <<fadeVars, mbsVars, upVars>>
SpecEq == EqInit /\ [][EqNext]_vars

\* A MinibatchStddev layer.
MbsInit == MinibatchStddev_init /\ NoFadein /\ NoEqualized /\ NoUpsample
MbsNext == MinibatchStddev_forward /\ UNCHANGED <<fadeVars, eqVars, upVars>>
SpecMbs == MbsInit /\ [][MbsNext]_vars

\* An Upsample layer.
UpInit == Upsample_init /\ NoFadein /\ NoEqualized /\ NoMinibatchStddev
UpNext == Upsample_forward /\ UNCHANGED <<fadeVars, eqVars, mbsVars>>
SpecUp == UpInit /\ [][UpNext]_vars

----------------------------------------------------------------------------
\* Properties.

InUnitInterval(a) == 0 <= a /\ a <= AlphaDen

\* C1: get_alpha() returns a value in [0,1] in every reachable state of a
\* Fadein object, whatever alpha the constructor was given.
C1_GetAlphaInUnitInterval ==
    fadeCall.op = "get_alpha" => InUnitInterval(fadeCall.ret)

\* clamp(v, 0, 1), alpha being in units of 1/AlphaDen.
Clamp01(v) == IF v > AlphaDen THEN AlphaDen ELSE IF v < 0 THEN 0 ELSE v

\* C2: update_alpha(delta) from an alpha in [0,1] leaves
\* alpha = clamp(alpha_before + delta, 0, 1): exactly 1 on an overshoot,
\* exactly 0 on an undershoot, the sum itself when it lies in [0,1].
C2_UpdateAlphaClamps ==
    (fadeCall.op = "update_alpha" /\ InUnitInterval(fadeCall.before)) =>
        LET sum == fadeCall.before + fadeCall.delta
        IN  /\ alpha = Clamp01(sum)
            /\ sum > AlphaDen => alpha = AlphaDen
            /\ sum < 0 => alpha = 0
            /\ InUnitInterval(sum) => alpha = sum

\* 0.9 + 0.3 has been clamped to 1.0.
C2_Witness ==
    /\ fadeCall.op = "update_alpha"
    /\ 10 * fadeCall.before = 9 * AlphaDen
    /\ 10 * fadeCall.delta = 3 * AlphaDen
    /\ alpha = AlphaDen

\* C3: Fadein.forward(ConcatTable(layer1, layer2).forward(x)) is
\* layer1(x)*(1-alpha) + layer2(x)*alpha, both layers applied to x itself:
\* layer1(x) at alpha = 0, layer2(x) at alpha = 1, the average at 0.5; alpha
\* is left as it was.  (out is in units of 1/AlphaDen.)
C3_FadeinBlendsBranches ==
    fadeCall.op = "forward" =>
        LET old == ApplyLayer(table.layer1, fadeCall.x)
            new == ApplyLayer(table.layer2, fadeCall.x)
            out == fadeCall.out
        IN  /\ alpha = fadeCall.before
            /\ out.shape = fadeCall.x.shape
            /\ Len(out.data) = Len(fadeCall.x.data)
            /\ \A i \in 1..Len(out.data) :
                /\ out.data[i] = old.data[i] * (AlphaDen - alpha) + new.data[i] * alpha
                /\ alpha = 0 => out.data[i] = AlphaDen * old.data[i]
                /\ alpha = AlphaDen => out.data[i] = AlphaDen * new.data[i]
                /\ 2 * alpha = AlphaDen =>
                       2 * out.data[i] = AlphaDen * (old.data[i] + new.data[i])

\* A forward call at alpha = 0.5 whose result is neither branch.
C3_Witness ==
    /\ fadeCall.op = "forward"
    /\ 2 * alpha = AlphaDen
    /\ table.layer1 = "negate" /\ table.layer2 = "plus_one"
    /\ Len(fadeCall.x.data) = 2
    /\ fadeCall.out.data # MulScalar(ApplyLayer("negate", fadeCall.x), AlphaDen).data
    /\ fadeCall.out.data # MulScalar(ApplyLayer("plus_one", fadeCall.x), AlphaDen).data

\* C4: for every batch size N >= 1 and group_size >= 1 the call does not
\* error, G = min(group_size, N) when group_size divides N and G = N
\* otherwise, and G * M = N; N = 5 with group_size = 4 gives G = 5, M = 1.
C4_GroupsPartitionBatch ==
    mbsCall.op # "init" =>
        LET N == mbsX.shape[1]
        IN  /\ mbsCall.op = "forward"
            /\ (N % group_size = 0) =>
                   mbsCall.G = (IF group_size < N THEN group_size ELSE N)
            /\ (N % group_size # 0) => mbsCall.G = N
            /\ mbsCall.G * mbsCall.M = N
            /\ mbsCall.G >= 1 /\ mbsCall.M >= 1
            /\ (N = 5 /\ group_size = 4) => (mbsCall.G = 5 /\ mbsCall.M = 1)

\* A batch of 5 went through a layer with group_size 4.
C4_Witness ==
    /\ mbsCall.op = "forward" /\ mbsX.shape[1] = 5 /\ group_size = 4
    /\ mbsCall.G = 5 /\ mbsCall.M = 1

\* Sample n of a batch: its C*H*W values.
Sample(x, n) ==
    LET R == Len(x.data) \div x.shape[1]
    IN  [q \in 1..R |-> x.data[n * R + q]]

\* A batch of 4 identical feature maps through a layer with group_size 4.
FourIdentical ==
    /\ mbsCall.op = "forward" /\ group_size = 4 /\ mbsX.shape[1] = 4
    /\ \A n \in 1..3 : Sample(mbsX, n) = Sample(mbsX, 0)

\* The values of the appended channel (channel C of the output).
Appended ==
    LET C == mbsX.shape[2]
    IN  {At4(mbsCall.out, n, C, h, w) :
            n \in 0..(mbsX.shape[1] - 1), h \in 0..(mbsX.shape[3] - 1),
            w \in 0..(mbsX.shape[4] - 1)}

\* C5 as claimed: for 4 identical feature maps and group_size 4 the appended
\* channel is zero at every sample and every position.
C5_AppendedAllZero == FourIdentical => Appended = {0}

\* C5 as amended: for 4 identical feature maps and group_size 4 the appended
\* channel is sqrt(0 + 1e-8) = 1e-4 at every sample and every position.
C5_AppendedIsSqrtEpsilon == FourIdentical => Appended = {Sqrt(Epsilon)}

\* Four identical, non-zero feature maps with two positions each.
C5_Witness ==
    /\ FourIdentical
    /\ mbsX.shape[3] * mbsX.shape[4] = 2
    /\ \E q \in 1..2 : Sample(mbsX, 0)[q] # 0
    /\ mbsCall.G = 4 /\ mbsCall.M = 1

\* C6: the output of MinibatchStddev.forward on N x C x H x W is
\* N x (C+1) x H x W and its channels 0..C-1 are the input, sample by sample.
C6_OneChannelAppended ==
    mbsCall.op # "init" =>
        LET N == mbsX.shape[1]  C == mbsX.shape[2]
            H == mbsX.shape[3]  W == mbsX.shape[4]
        IN  /\ mbsCall.op = "forward"
            /\ mbsCall.out.shape = <<N, C + 1, H, W>>
            /\ Len(mbsCall.out.data) = N * (C + 1) * H * W
            /\ \A n \in 0..(N - 1), c \in 0..(C - 1), h \in 0..(H - 1), w \in 0..(W - 1) :
                   At4(mbsCall.out, n, c, h, w) = At4(mbsX, n, c, h, w)

\* A batch of several samples and channels whose values are not all equal.
C6_Witness ==
    /\ mbsCall.op = "forward"
    /\ mbsX.shape[1] >= 2 /\ mbsX.shape[2] >= 2 /\ mbsX.shape[4] >= 2
    /\ \E i \in 1..Len(mbsX.data) : mbsX.data[i] # mbsX.data[1]

\* C7: scale keeps the value the constructor gave it through forward calls
\* and optimizer updates, and a forward call changes neither scale, weight
\* nor bias.
C7_ScaleFixedForwardPure ==
    [][/\ layer'.scale = layer0.scale
       /\ eqCall'.op = "forward" =>
              (/\ layer'.scale = layer.scale
               /\ layer'.weight = layer.weight
               /\ layer'.bias_param = layer.bias_param)]_vars

\* A forward call after the optimizer changed the weight, on a layer whose
\* scale is no longer what the current weight would give.
C7_Witness ==
    /\ eqCall.op = "forward"
    /\ optSteps > 0
    /\ layer.weight # layer0.weight
    /\ layer.scale = layer0.scale
    /\ Sqrt(MeanSquare(layer.weight)) # layer.scale

\* C8: the output of EqualizedLinear.forward is (x_flat * scale) @ W^T + bias,
\* the bias unscaled and one entry per output feature; with bias disabled,
\* or while the bias is still all zero, it is (x_flat * scale) @ W^T.
C8_LinearForward ==
    (eqCall.op = "forward" /\ layer.kind = "linear") =>
        LET x == eqCall.x
            N == x.shape[1]
            In == layer.weight.shape[2]
            Out == layer.weight.shape[1]
            Dot(n, o) ==
                SumSeq([i \in 1..In |->
                          (x.data[n * In + i] * layer.scale)
                              * layer.weight.data[o * In + i]])
        IN  /\ eqCall.out.shape = <<N, Out>>
            /\ Len(eqCall.out.data) = N * Out
            /\ Len(x.data) = N * In
            /\ \A n \in 0..(N - 1), o \in 0..(Out - 1) :
                /\ layer.bias =>
                       eqCall.out.data[n * Out + o + 1] = Dot(n, o) + layer.bias_param[o + 1]
                /\ ~layer.bias => eqCall.out.data[n * Out + o + 1] = Dot(n, o)
                /\ optSteps = 0 => eqCall.out.data[n * Out + o + 1] = Dot(n, o)

\* A batch of two through a linear layer with two outputs, scale 3 and a
\* bias the optimizer has moved away from zero.
C8_Witness ==
    /\ eqCall.op = "forward" /\ layer.kind = "linear"
    /\ layer.bias /\ layer.bias_param = <<0, 1>>
    /\ layer.scale = 3
    /\ eqCall.x.shape[1] = 2

\* C9: Upsample.forward on N x C x H x W returns N x C x 2H x 2W with
\* out[n][c][i][j] = in[n][c][i div 2][j div 2].
C9_NearestUpsample ==
    upCall.op = "forward" =>
        LET N == upX.shape[1]  C == upX.shape[2]
            H == upX.shape[3]  W == upX.shape[4]
        IN  /\ upCall.out.shape = <<N, C, 2 * H, 2 * W>>
            /\ Len(upCall.out.data) = N * C * 2 * H * 2 * W
            /\ \A n \in 0..(N - 1), c \in 0..(C - 1),
                  i \in 0..(2 * H - 1), j \in 0..(2 * W - 1) :
                   At4(upCall.out, n, c, i, j) = At4(upX, n, c, i \div 2, j \div 2)

\* A 2 x 2 map with two different values has been upsampled.
C9_Witness ==
    /\ upCall.op = "forward"
    /\ upX.shape[3] = 2 /\ upX.shape[4] = 2
    /\ upX.data[1] # upX.data[2]
    /\ upCall.out.shape[3] = 4

\* The statistic of the samples listed in members (a sequence of sample
\* indices): at each of the C*H*W positions the standard deviation over the
\* members, with 1e-8 added under the root, then the mean over the positions.
GroupStatistic(x, members) ==
    LET R == Len(x.data) \div x.shape[1]
        G == Len(members)
        Val(k, q) == x.data[members[k] * R + q]
        Mean(q) == SumSeq([k \in 1..G |-> Val(k, q)]) \div G
        Var(q) ==
            SumSeq([k \in 1..G |-> (Val(k, q) - Mean(q)) * (Val(k, q) - Mean(q))]) \div G
    IN  SumSeq([q \in 1..R |-> Sqrt(Var(q) + Epsilon)]) \div R

\* The samples the reshape to G x M puts in group m: m, m+M, ..., m+(G-1)*M.
GroupMembers(m, G, M) == [k \in 1..G |-> m + (k - 1) * M]

\* C10: the appended channel of output sample n is, at every position, the
\* statistic of the group n mod M that sample n belongs to.
C10_SampleCarriesOwnGroup ==
    mbsCall.op = "forward" =>
        LET N == mbsX.shape[1]  C == mbsX.shape[2]
            H == mbsX.shape[3]  W == mbsX.shape[4]
            G == mbsCall.G  M == mbsCall.M
        IN  \A n \in 0..(N - 1), h \in 0..(H - 1), w \in 0..(W - 1) :
                At4(mbsCall.out, n, C, h, w)
                    = GroupStatistic(mbsX, GroupMembers(n % M, G, M))

\* Several groups of several samples, two of them with different statistics.
C10_Witness ==
    /\ mbsCall.op = "forward"
    /\ mbsCall.G >= 2 /\ mbsCall.M >= 2
    /\ At4(mbsCall.out, 0, mbsX.shape[2], 0, 0) # At4(mbsCall.out, 1, mbsX.shape[2], 0, 0)

====
